---- MODULE Spec2Model ----
(***************************************************************************)
(* Model of pages/0_Foundations.py: the MRV readiness page of the Carbon   *)
(* Registry.  The page script runs top to bottom on every interaction of a *)
(* session; all sessions of the process share one cached sqlite3           *)
(* connection (st.cache_resource).                                         *)
(*                                                                         *)
(* Python floats are IEEE-754 binary64.  They are modelled exactly: a      *)
(* float is a record [e, m] whose value is (0.m[1] m[2] ... m[53])_2 * 2^e *)
(* with m[1] = 1 for every nonzero value; every arithmetic operation       *)
(* rounds to nearest, ties to even, as the hardware does.                  *)
(***************************************************************************)
EXTENDS Integers, Sequences, FiniteSets

\* ------------------------------------------------------------------------
\* IEEE-754 binary64 arithmetic (the `float` of lines 246, 130, 133, 142)
\* ------------------------------------------------------------------------
MantBits == 53

ZeroExp == 0 - 1074

Zeros(k) == [i \in 1..k |-> 0]

FZero == [e |-> ZeroExp, m |-> Zeros(MantBits)]

Pow2(k) == 2 ^ k

\* the exponent e with 2^(e-1) <= n/d < 2^e, for integers n, d > 0
RECURSIVE ExpUp(_, _, _)
ExpUp(n, d, e) == IF n < d * Pow2(e) THEN e ELSE ExpUp(n, d, e + 1)

RECURSIVE ExpDown(_, _, _)
ExpDown(n, d, e) == IF n * Pow2(1 - e) >= d THEN e ELSE ExpDown(n, d, e - 1)

ExpOf(n, d) == IF n >= d THEN ExpUp(n, d, 1) ELSE ExpDown(n, d, 0)

\* 2^k modulo den, for k <= 60 and den < 2^15
Pow2Mod(k, den) ==
    IF k <= 30 THEN Pow2(k) % den
    ELSE ((Pow2(30) % den) * (Pow2(k - 30) % den)) % den

\* the remainder of num * 2^k modulo den: what long division of num/den
\* has left after k binary digits
RemAfter(num, den, k) == (num * Pow2Mod(k, den)) % den

\* the first k binary digits of num/den (in [0,1)) and the remainder left
GenBits(num, den, k) ==
    [bits |-> [i \in 1..k |-> (2 * RemAfter(num, den, i - 1)) \div den],
     rem  |-> RemAfter(num, den, k)]

\* bits + 1 as a binary number of the same length; carry = 1 on overflow
IncBits(bits) ==
    LET n == Len(bits)
        \* the last 0 bit, the one the carry stops at; 0 when all bits are 1
        z == IF \A j \in 1..n : bits[j] = 1 THEN 0
             ELSE CHOOSE i \in 1..n :
                      bits[i] = 0 /\ \A j \in (i + 1)..n : bits[j] = 1
    IN  [bits  |-> [i \in 1..n |-> IF i < z THEN bits[i]
                                   ELSE IF i = z THEN 1 ELSE 0],
         carry |-> IF z = 0 THEN 1 ELSE 0]

\* round-to-nearest-even of a 53-bit mantissa given whether to round up
RoundMant(e, bits, up) ==
    IF ~up THEN [e |-> e, m |-> bits]
    ELSE LET inc == IncBits(bits)
         IN  IF inc.carry = 1
             THEN [e |-> e + 1, m |-> [i \in 1..MantBits |-> IF i = 1 THEN 1 ELSE 0]]
             ELSE [e |-> e, m |-> inc.bits]

\* the correctly rounded quotient n/d of two small non-negative integers
\* (int / float and int / int true division)
FDiv(n, d) ==
    IF n = 0 THEN FZero
    ELSE LET e   == ExpOf(n, d)
             num == IF e >= 0 THEN n ELSE n * Pow2(0 - e)
             den == IF e >= 0 THEN d * Pow2(e) ELSE d
             g   == GenBits(num, den, MantBits)
             up  == \/ 2 * g.rem > den
                    \/ 2 * g.rem = den /\ g.bits[MantBits] = 1
         IN  RoundMant(e, g.bits, up)

FromInt(n) == FDiv(n, 1)

\* the integer whose binary digits are bits[1..k], k <= 30
RECURSIVE BitsToInt(_, _)
BitsToInt(bits, k) ==
    IF k = 0 THEN 0
    ELSE IF k >= 5
    THEN 32 * BitsToInt(bits, k - 5) + 16 * bits[k - 4] + 8 * bits[k - 3]
                                     + 4 * bits[k - 2] + 2 * bits[k - 1] + bits[k]
    ELSE 2 * BitsToInt(bits, k - 1) + bits[k]

IntToBits(v, k) == [i \in 1..k |-> (v \div Pow2(k - i)) % 2]

LimbBits == 20

\* the 53-bit mantissa times the small integer c, as a 61-bit sequence,
\* multiplied limb by limb (13 + 20 + 20 bits) so that nothing exceeds 2^31
MulBits(bits, c) ==
    LET base == Pow2(LimbBits)
        l1   == BitsToInt(SubSeq(bits, 1, 13), 13)
        l2   == BitsToInt(SubSeq(bits, 14, 33), LimbBits)
        l3   == BitsToInt(SubSeq(bits, 34, 53), LimbBits)
        p3   == l3 * c
        p2   == l2 * c + p3 \div base
        p1   == l1 * c + p2 \div base
    IN  IntToBits(p1, 21) \o IntToBits(p2 % base, LimbBits)
                          \o IntToBits(p3 % base, LimbBits)

LeadingZeros(bits) ==
    (CHOOSE i \in 1..Len(bits) : bits[i] = 1 /\ \A j \in 1..(i - 1) : bits[j] = 0) - 1

\* the correctly rounded product x * c of a float and a small integer
\* 0 < c < 256 (the float 100.0 is the integer 100)
FMulSmall(x, c) ==
    IF x = FZero THEN FZero
    ELSE LET prod == MulBits(x.m, c)
             lz   == LeadingZeros(prod)
             p    == SubSeq(prod, lz + 1, Len(prod))
             e    == x.e + (Len(p) - MantBits)
             keep == SubSeq(p, 1, MantBits)
             tail == SubSeq(p, MantBits + 1, Len(p))
             grd  == Len(tail) >= 1 /\ tail[1] = 1
             stk  == \E i \in 2..Len(tail) : tail[i] = 1
             up   == grd /\ (stk \/ keep[MantBits] = 1)
         IN  RoundMant(e, keep, up)

\* x < y on non-negative floats
FLess(x, y) ==
    \/ x.e < y.e
    \/ /\ x.e = y.e
       /\ \E i \in 1..MantBits : /\ x.m[i] < y.m[i]
                                 /\ \A j \in 1..(i - 1) : x.m[j] = y.m[j]

FLeq(x, y) == x = y \/ FLess(x, y)

\* format(x, ".0f") of a float below 2^30: the nearest integer to the exact
\* value of x, ties to even
Fmt0f(x) ==
    IF x.e < 0 THEN 0
    ELSE LET ip  == BitsToInt(x.m, x.e)
             grd == x.m[x.e + 1] = 1
             stk == \E i \in (x.e + 2)..MantBits : x.m[i] = 1
         IN  IF grd /\ (stk \/ ip % 2 = 1) THEN ip + 1 ELSE ip

\* ------------------------------------------------------------------------
\* Scoring and narrative (pure functions of the page script)
\* ------------------------------------------------------------------------
None == "None"

SliderMin == 0

SliderMax == 5

\* the keys of the dict `dims`, in insertion order
DimNames == <<"boundary", "baseline", "assumptions", "ef_trace", "data_quality", "uncertainty">>

DimSet == {DimNames[i] : i \in 1..Len(DimNames)}

Ratings == SliderMin..SliderMax

\* the slider defaults
DefaultDims ==
    [boundary |-> 3, baseline |-> 3, assumptions |-> 3,
     ef_trace |-> 2, data_quality |-> 3, uncertainty |-> 2]

score(d) ==
    d.boundary + d.baseline + d.assumptions + d.ef_trace + d.data_quality + d.uncertainty

\* (score / 30.0) * 100.0, a table over the sums six sliders can give
PctTable == [sc \in 0..(6 * SliderMax) |-> FMulSmall(FDiv(sc, 30), 100)]

pct_mut_scale(sc) == FMulSmall(FDiv(sc, 25), 100)

pct(sc) == PctTable[sc]

\* dims.items(): the (key, value) pairs in insertion order
items(d) == [i \in 1..Len(DimNames) |-> <<DimNames[i], d[DimNames[i]]>>]

\* one step of a stable sort: kv goes behind every element whose key is
\* not larger than its own
insert_stable_mut_before_equal(sorted, kv) ==
    LET k == Cardinality({i \in 1..Len(sorted) : sorted[i][2] < kv[2]})
    IN  SubSeq(sorted, 1, k) \o <<kv>> \o SubSeq(sorted, k + 1, Len(sorted))

insert_stable(sorted, kv) ==
    LET k == Cardinality({i \in 1..Len(sorted) : sorted[i][2] <= kv[2]})
    IN  SubSeq(sorted, 1, k) \o <<kv>> \o SubSeq(sorted, k + 1, Len(sorted))

RECURSIVE sort_by_value(_, _)
sort_by_value(its, n) ==
    IF n = 0 THEN << >> ELSE insert_stable(sort_by_value(its, n - 1), its[n])

\* sorted(dims.items(), key=lambda kv: kv[1]); Python's sort is stable
sorted_dims(d) == sort_by_value(items(d), Len(DimNames))

\* sorted_dims[:2]
weakest(sd) == SubSeq(sd, 1, IF Len(sd) < 2 THEN Len(sd) ELSE 2)

strongest_mut_slice(sd) == SubSeq(sd, 2, 3)

\* sorted_dims[-2:]
strongest(sd) == SubSeq(sd, IF Len(sd) < 2 THEN 1 ELSE Len(sd) - 1, Len(sd))

\* k.replace('_', ' ').title()
Title ==
    [boundary |-> "Boundary", baseline |-> "Baseline", assumptions |-> "Assumptions",
     ef_trace |-> "Ef Trace", data_quality |-> "Data Quality", uncertainty |-> "Uncertainty"]

\* ", ".join(f"{title} ({v}/5)" ...): the sequence of (title, v) parts
areas_txt(kvs) == [i \in 1..Len(kvs) |-> <<Title[kvs[i][1]], kvs[i][2]>>]

Early == "Early-stage (screening only)"

Intermediate == "Intermediate (decision-support)"

Strong == "Strong (approaching audit-ready structure)"

AdviceEarly == "Focus on clarifying boundaries, documenting assumptions, and recording factor sources."

AdviceIntermediate == "Tighten evidence traceability and quantify uncertainty for critical inputs."

AdviceStrong == "Maintain traceability and align fully to the chosen standard/methodology for audit defensibility."

stage_advice_mut_closed(score_pct) ==
    IF FLeq(score_pct, FromInt(50))
    THEN [stage |-> Early, advice |-> AdviceEarly]
    ELSE IF FLeq(score_pct, FromInt(75))
    THEN [stage |-> Intermediate, advice |-> AdviceIntermediate]
    ELSE [stage |-> Strong, advice |-> AdviceStrong]

\* the if / elif / else of build_narrative
stage_advice(score_pct) ==
    IF FLess(score_pct, FromInt(50))
    THEN [stage |-> Early, advice |-> AdviceEarly]
    ELSE IF FLess(score_pct, FromInt(75))
    THEN [stage |-> Intermediate, advice |-> AdviceIntermediate]
    ELSE [stage |-> Strong, advice |-> AdviceStrong]

\* the fields the returned markdown text is made of
build_narrative(score_pct, d) ==
    LET sd == sorted_dims(d)
        sa == stage_advice(score_pct)
    IN  [readiness |-> Fmt0f(score_pct),
         stage     |-> sa.stage,
         strongest |-> areas_txt(strongest(sd)),
         weakest   |-> areas_txt(weakest(sd)),
         advice    |-> sa.advice]

NoNarrative ==
    [readiness |-> 0, stage |-> None, strongest |-> << >>, weakest |-> << >>, advice |-> None]

ZeroDims == [k \in DimSet |-> 0]

\* ------------------------------------------------------------------------
\* State
\* ------------------------------------------------------------------------
VARIABLES
    foreign_keys,   \* PRAGMA foreign_keys of the cached connection
    schema,         \* the tables that exist in data/carbon_registry.db
    projects,       \* committed rows of table projects
    mrv_scores,     \* committed rows of table mrv_scores
    tx_rows,        \* mrv_scores rows inserted by the connection's open transaction
    pc,             \* per session: where its script run stands
    loc,            \* per session: the script's variables and what it rendered
    uuid_next,      \* how many uuid4 values have been drawn
    faults,         \* how many storage failures have happened
    failed_ids,     \* history: mrv_ids of the save_mrv calls that raised
    p_pc,           \* direct calls of the pure functions: position
    p_src,          \* ... where score_pct comes from: FromSliders, or tenths of a percent
    p_dims,         \* ... the ratings
    p_pct,          \* ... the float score_pct
    p_out           \* ... what build_narrative returned

page_vars ==
    <<foreign_keys, schema, projects, mrv_scores, tx_rows, pc, loc,
      uuid_next, faults, failed_ids>>

pure_vars == <<p_pc, p_src, p_dims, p_pct, p_out>>

vars == <<page_vars, pure_vars>>

\* ------------------------------------------------------------------------
\* The pure functions called directly, over their whole input range
\* ------------------------------------------------------------------------
MaxTenths == 1000

FromSliders == 0 - 1

PureOff ==
    /\ p_pc = "off"
    /\ p_src = FromSliders
    /\ p_dims = ZeroDims
    /\ p_pct = FZero
    /\ p_out = NoNarrative

\* six slider values, or a percentage given in tenths with the default ratings
PureInit ==
    /\ p_out = NoNarrative
    /\ \/ /\ p_pc = "sliders"
          /\ p_src = FromSliders
          /\ p_dims \in [DimSet -> Ratings]
          /\ p_pct = FZero
       \/ /\ p_pc = "scored"
          /\ \E t \in 0..MaxTenths : p_src = t /\ p_pct = FDiv(t, 10)
          /\ p_dims = DefaultDims

\* lines 245-246
ComputeScore ==
    /\ p_pc = "sliders"
    /\ p_pct' = pct(score(p_dims))
    /\ p_pc' = "scored"
    /\ UNCHANGED <<p_src, p_dims, p_out>>
    /\ UNCHANGED page_vars

\* line 259, and a direct call of build_narrative
CallBuildNarrative ==
    /\ p_pc = "scored"
    /\ p_out' = build_narrative(p_pct, p_dims)
    /\ p_pc' = "built"
    /\ UNCHANGED <<p_src, p_dims, p_pct>>
    /\ UNCHANGED page_vars

PageOff ==
    /\ foreign_keys = FALSE
    /\ schema = {}
    /\ projects = {}
    /\ mrv_scores = {}
    /\ tx_rows = {}
    /\ pc = << >>
    /\ loc = << >>
    /\ uuid_next = 0
    /\ faults = 0
    /\ failed_ids = {}

InitPure == PageOff /\ PureInit

NextPure == ComputeScore \/ CallBuildNarrative

SpecPure == InitPure /\ [][NextPure]_vars

\* ------------------------------------------------------------------------
\* The database file and the shared connection
\* ------------------------------------------------------------------------
Sessions == {"s1", "s2"}

MaxSaves == 2

MaxFaults == 1

\* the rows the Registry page can have put into table projects
ProjectRows ==
    {[project_id |-> "p1", project_code |-> "CR-001", project_name |-> "Solar",
      status |-> "active", updated_at |-> "2024-01-02T00:00:00Z"]}

ProjectIds(rows) == {r.project_id : r \in rows}

\* what the sliders and the text area of one run can deliver
SliderInputs ==
    {DefaultDims,
     [boundary |-> 4, baseline |-> 4, assumptions |-> 3,
      ef_trace |-> 3, data_quality |-> 3, uncertainty |-> 3]}

NotesInputs == {" invoices missing for Q3 "}

Triggers == {"interaction", "save_click", "download_click"}

\* what the wall clock can read when a save happens: utcnow() to the second
\* and date.today()
Instants ==
    {[utc |-> "2024-05-01T10:00:00", day |-> "2024-05-01"]}

\* the rows of mrv_scores a statement on the shared connection sees
conn_view == mrv_scores \cup tx_rows

\* conn.commit(): the open transaction becomes durable
commit_rows(committed, tx) == committed \cup tx

\* conn.execute(): the statement joins the transaction the connection has open
tx_before_execute_mut_rollback(tx) == {}

tx_before_execute(tx) == tx

\* CREATE TABLE IF NOT EXISTS mrv_scores: the rows the table has afterwards
rows_after_create_mut_recreate(sch, rows) == {}

rows_after_create(sch, rows) == IF "mrv_scores" \in sch THEN rows ELSE {}

\* now_iso(): isoformat() of the instant, then "Z"
now_iso(t) == <<t.utc, "Z">>

\* ------------------------------------------------------------------------
\* list_projects
\* ------------------------------------------------------------------------
\* COALESCE(updated_at, ''): the place of the text in ascending order; NULL
\* is None
TextRank(t) == IF t = None THEN 0 ELSE 1

\* ORDER BY COALESCE(updated_at,'') DESC, for rows with distinct sort keys
RECURSIVE order_desc(_)
order_desc(rows) ==
    IF rows = {} THEN << >>
    ELSE LET top == CHOOSE r \in rows :
                        \A q \in rows : TextRank(q.updated_at) <= TextRank(r.updated_at)
         IN  <<top>> \o order_desc(rows \ {top})

\* fillna("")
fillna(t) == IF t = None THEN "" ELSE t

\* lines 113-116: code, a dash, name; or the project_id when that is a bare dash
label(r) ==
    LET code == fillna(r.project_code)
        name == fillna(r.project_name)
    IN  IF code = "" /\ name = "" THEN <<r.project_id>> ELSE <<code, " -- ", name>>

\* lines 104-117: the frame of the rows, ordered and labelled
projects_frame(rows) ==
    LET ordered == order_desc(rows)
    IN  [i \in 1..Len(ordered) |->
            [project_id |-> ordered[i].project_id, label |-> label(ordered[i])]]

list_projects_mut_no_except(query_ok, sch, rows) ==
    IF query_ok /\ "projects" \in sch
    THEN [raised |-> FALSE, df |-> projects_frame(rows)]
    ELSE [raised |-> TRUE, df |-> << >>]

\* the data frame returned, and whether an exception leaves the function
list_projects(query_ok, sch, rows) ==
    IF query_ok /\ "projects" \in sch
    THEN [raised |-> FALSE, df |-> projects_frame(rows)]
    ELSE [raised |-> FALSE, df |-> << >>]

\* projects.empty
empty(df) == Len(df) = 0

\* ------------------------------------------------------------------------
\* One run of the page script, per session
\* ------------------------------------------------------------------------
EmptyLoc ==
    [clicked |-> FALSE, project_id |-> None,
     dims |-> ZeroDims, pct |-> FZero, narrative |-> NoNarrative, notes |-> "",
     mrv_id |-> 0, form |-> FALSE, message |-> "none", error |-> None]

\* notes.strip() or None
strip_or_none(n) == IF n = "" THEN None ELSE "invoices missing for Q3"

insert_params_mut_rounded(l, t) ==
    [mrv_id |-> l.mrv_id, project_id |-> l.project_id,
     score_pct |-> FromInt(l.narrative.readiness),
     boundary |-> l.dims.boundary, baseline |-> l.dims.baseline,
     assumptions |-> l.dims.assumptions, ef_trace |-> l.dims.ef_trace,
     data_quality |-> l.dims.data_quality, uncertainty |-> l.dims.uncertainty,
     narrative |-> l.narrative,
     meta_json |-> [notes |-> strip_or_none(l.notes), saved_on |-> t.day],
     created_at |-> now_iso(t)]

\* the parameter tuple of the INSERT of save_mrv (lines 161-174), with the
\* meta of line 276; float() of a float and int() of an int change nothing
insert_params(l, t) ==
    [mrv_id |-> l.mrv_id, project_id |-> l.project_id,
     score_pct |-> l.pct,
     boundary |-> l.dims.boundary, baseline |-> l.dims.baseline,
     assumptions |-> l.dims.assumptions, ef_trace |-> l.dims.ef_trace,
     data_quality |-> l.dims.data_quality, uncertainty |-> l.dims.uncertainty,
     narrative |-> l.narrative,
     meta_json |-> [notes |-> strip_or_none(l.notes), saved_on |-> t.day],
     created_at |-> now_iso(t)]

\* lines 281-287: the text behind the download button
report_text(lbl, l, t) ==
    <<lbl, t.day, l.narrative, IF strip_or_none(l.notes) = None THEN "-" ELSE strip_or_none(l.notes)>>

\* When a run ends its variables are gone.  What stays is the page it
\* rendered (form, message, error) and, as history, the arguments and the
\* mrv_id of the save_mrv call it made
Rendered(l) ==
    IF l.mrv_id # 0
    THEN [l EXCEPT !.clicked = FALSE]
    ELSE [EmptyLoc EXCEPT !.form = l.form, !.message = l.message, !.error = l.error]

\* an uncaught exception ends the run; the page shows the traceback
Raise(s, origin) ==
    /\ pc' = [pc EXCEPT ![s] = "idle"]
    /\ loc' = [loc EXCEPT ![s] =
                  Rendered([loc[s] EXCEPT !.message = "exception", !.error = origin])]

\* save clicks whose uuid4 is still to be drawn
SavesUnderway ==
    Cardinality({t \in Sessions : pc[t] # "idle" /\ loc[t].clicked /\ loc[t].mrv_id = 0})

\* the script starts over on every interaction; the two buttons exist only
\* if the run before rendered them
StartRun(s) ==
    /\ pc[s] = "idle"
    /\ \E trig \in Triggers :
          /\ trig # "interaction" => loc[s].form
          /\ trig = "save_click" => uuid_next + SavesUnderway < MaxSaves
          /\ loc' = [loc EXCEPT ![s] = [EmptyLoc EXCEPT !.clicked = (trig = "save_click")]]
    /\ pc' = [pc EXCEPT ![s] = "schema_projects"]
    /\ UNCHANGED <<foreign_keys, schema, projects, mrv_scores, tx_rows,
                   uuid_next, faults, failed_ids>>
    /\ UNCHANGED pure_vars

\* db_exec when it raises: the statement failed, or the commit failed and
\* either left the transaction open (SQLITE_BUSY) or had it rolled back
\* (SQLITE_FULL, I/O error)
DbExecRaises(s, origin) ==
    /\ faults < MaxFaults
    /\ faults' = faults + 1
    /\ \E kept \in {tx_rows, {}} : tx_rows' = kept
    /\ Raise(s, origin)

\* ensure_schema, lines 63-73: db_exec of CREATE TABLE IF NOT EXISTS projects.
\* The statement touches no row, so execute and commit are one step
SchemaProjects(s) ==
    /\ pc[s] = "schema_projects"
    /\ \/ /\ schema' = schema \cup {"projects"}
          /\ mrv_scores' = commit_rows(mrv_scores, tx_before_execute(tx_rows))
          /\ tx_rows' = {}
          /\ pc' = [pc EXCEPT ![s] = "schema_scores"]
          /\ UNCHANGED <<loc, faults>>
       \/ /\ DbExecRaises(s, "ensure_schema")
          /\ UNCHANGED <<schema, mrv_scores>>
    /\ UNCHANGED <<foreign_keys, projects, uuid_next, failed_ids>>
    /\ UNCHANGED pure_vars

\* ensure_schema, lines 76-94: db_exec of CREATE TABLE IF NOT EXISTS mrv_scores
SchemaScores(s) ==
    /\ pc[s] = "schema_scores"
    /\ \/ /\ schema' = schema \cup {"mrv_scores"}
          /\ mrv_scores' = commit_rows(rows_after_create(schema, mrv_scores),
                                       tx_before_execute(tx_rows))
          /\ tx_rows' = {}
          /\ pc' = [pc EXCEPT ![s] = "page"]
          /\ UNCHANGED <<loc, faults>>
       \/ /\ DbExecRaises(s, "ensure_schema")
          /\ UNCHANGED <<schema, mrv_scores>>
    /\ UNCHANGED <<foreign_keys, projects, uuid_next, failed_ids>>
    /\ UNCHANGED pure_vars

\* lines 219-222: list_projects, whose query works or raises, and the
\* warning when the frame is empty
PageNoProjects(s) ==
    /\ pc[s] = "page"
    /\ \E query_ok \in BOOLEAN :
          /\ ~query_ok => faults < MaxFaults
          /\ faults' = IF query_ok THEN faults ELSE faults + 1
          /\ LET res == list_projects(query_ok, schema, projects)
             IN  /\ res.raised \/ empty(res.df)
                 /\ IF res.raised
                    THEN Raise(s, "list_projects")
                    ELSE /\ loc' = [loc EXCEPT ![s] =
                                       Rendered([loc[s] EXCEPT !.message = "warning"])]
                         /\ pc' = [pc EXCEPT ![s] = "idle"]
    /\ UNCHANGED <<foreign_keys, schema, projects, mrv_scores, tx_rows,
                   uuid_next, failed_ids>>
    /\ UNCHANGED pure_vars

\* lines 219-270 and, without a save click, 280-294: list_projects returns
\* rows; the widgets deliver one of the listed projects, six ratings and the
\* notes; score, pct, dims and narrative are computed; a save click enters
\* save_mrv, which draws its uuid4
PageForm(s) ==
    /\ pc[s] = "page"
    /\ LET res == list_projects(TRUE, schema, projects)
       IN  /\ ~res.raised
           /\ ~empty(res.df)
           /\ \E i \in 1..Len(res.df), d \in SliderInputs, n \in NotesInputs :
                 LET p == pct(score(d))
                     l == [loc[s] EXCEPT !.project_id = res.df[i].project_id,
                                         !.dims = d, !.pct = p,
                                         !.narrative = build_narrative(p, d),
                                         !.notes = n, !.form = TRUE]
                 IN  IF loc[s].clicked
                     THEN /\ loc' = [loc EXCEPT ![s] = [l EXCEPT !.mrv_id = uuid_next + 1]]
                          /\ uuid_next' = uuid_next + 1
                          /\ pc' = [pc EXCEPT ![s] = "save_execute"]
                     ELSE /\ loc' = [loc EXCEPT ![s] = Rendered(l)]
                          /\ pc' = [pc EXCEPT ![s] = "idle"]
                          /\ UNCHANGED uuid_next
    /\ UNCHANGED <<foreign_keys, schema, projects, mrv_scores, tx_rows,
                   faults, failed_ids>>
    /\ UNCHANGED pure_vars

\* the INSERT violates a constraint of the schema
ConstraintFails(row) ==
    \/ row.mrv_id \in {r.mrv_id : r \in conn_view}
    \/ foreign_keys /\ row.project_id \notin ProjectIds(projects)

\* save_mrv: db_exec, line 50, the INSERT
SaveExecute(s) ==
    /\ pc[s] = "save_execute"
    /\ \E t \in Instants :
          LET row == insert_params(loc[s], t)
          IN  \/ /\ ~ConstraintFails(row)
                 /\ tx_rows' = tx_before_execute(tx_rows) \cup {row}
                 /\ pc' = [pc EXCEPT ![s] = "save_commit"]
                 /\ UNCHANGED <<loc, faults, failed_ids>>
              \/ /\ ConstraintFails(row)
                 /\ failed_ids' = failed_ids \cup {loc[s].mrv_id}
                 /\ Raise(s, "save_mrv")
                 /\ UNCHANGED <<tx_rows, faults>>
    /\ UNCHANGED <<foreign_keys, schema, projects, mrv_scores, uuid_next>>
    /\ UNCHANGED pure_vars

\* save_mrv: db_exec, line 50, when the INSERT cannot get the write lock
SaveExecuteFails(s) ==
    /\ pc[s] = "save_execute"
    /\ faults < MaxFaults
    /\ faults' = faults + 1
    /\ failed_ids' = failed_ids \cup {loc[s].mrv_id}
    /\ Raise(s, "save_mrv")
    /\ UNCHANGED <<foreign_keys, schema, projects, mrv_scores, tx_rows, uuid_next>>
    /\ UNCHANGED pure_vars

\* save_mrv: db_exec, line 51, then lines 176, 278 and 280-294
SaveCommit(s) ==
    /\ pc[s] = "save_commit"
    /\ mrv_scores' = commit_rows(mrv_scores, tx_rows)
    /\ tx_rows' = {}
    /\ loc' = [loc EXCEPT ![s] = Rendered([loc[s] EXCEPT !.message = "success"])]
    /\ pc' = [pc EXCEPT ![s] = "idle"]
    /\ UNCHANGED <<foreign_keys, schema, projects, uuid_next, faults, failed_ids>>
    /\ UNCHANGED pure_vars

\* save_mrv: db_exec, line 51, when the commit fails: the transaction stays
\* open (SQLITE_BUSY) or has been rolled back (SQLITE_FULL, I/O error)
SaveCommitFails(s) ==
    /\ pc[s] = "save_commit"
    /\ faults < MaxFaults
    /\ faults' = faults + 1
    /\ \E kept \in {tx_rows, {}} : tx_rows' = kept
    /\ failed_ids' = failed_ids \cup {loc[s].mrv_id}
    /\ Raise(s, "save_mrv")
    /\ UNCHANGED <<foreign_keys, schema, projects, mrv_scores, uuid_next>>
    /\ UNCHANGED pure_vars

\* the Registry page adds a project; a writer must wait while the shared
\* connection holds an open write transaction
RegistryCreateProject ==
    /\ tx_rows = {}
    /\ \E r \in ProjectRows \ projects :
          /\ projects' = projects \cup {r}
          /\ schema' = schema \cup {"projects"}
    /\ UNCHANGED <<foreign_keys, mrv_scores, tx_rows, pc, loc,
                   uuid_next, faults, failed_ids>>
    /\ UNCHANGED pure_vars

\* ON DELETE SET NULL (line 91) acts only where foreign keys are enforced
rows_after_project_delete(rows, pid) ==
    IF foreign_keys
    THEN {IF r.project_id = pid THEN [r EXCEPT !.project_id = None] ELSE r : r \in rows}
    ELSE rows

\* somebody deletes a project, on a connection opened as get_conn opens it
ExternalDeleteProject ==
    /\ tx_rows = {}
    /\ \E r \in projects :
          /\ projects' = projects \ {r}
          /\ mrv_scores' = rows_after_project_delete(mrv_scores, r.project_id)
    /\ UNCHANGED <<foreign_keys, schema, tx_rows, pc, loc,
                   uuid_next, faults, failed_ids>>
    /\ UNCHANGED pure_vars

\* get_conn never sets PRAGMA foreign_keys, so the connection has the default
\* the SQLite library was built with (SQLITE_DEFAULT_FOREIGN_KEYS, stock: off)
PageInit ==
    /\ foreign_keys \in BOOLEAN
    /\ schema = {}
    /\ projects = {}
    /\ mrv_scores = {}
    /\ tx_rows = {}
    /\ pc = [s \in Sessions |-> "idle"]
    /\ loc = [s \in Sessions |-> EmptyLoc]
    /\ uuid_next = 0
    /\ faults = 0
    /\ failed_ids = {}

Init == PageInit /\ PureOff

Next ==
    \/ \E s \in Sessions : StartRun(s)
    \/ \E s \in Sessions : SchemaProjects(s)
    \/ \E s \in Sessions : SchemaScores(s)
    \/ \E s \in Sessions : PageNoProjects(s)
    \/ \E s \in Sessions : PageForm(s)
    \/ \E s \in Sessions : SaveExecute(s)
    \/ \E s \in Sessions : SaveExecuteFails(s)
    \/ \E s \in Sessions : SaveCommit(s)
    \/ \E s \in Sessions : SaveCommitFails(s)
    \/ RegistryCreateProject
    \/ ExternalDeleteProject

Spec == Init /\ [][Next]_vars

\* ------------------------------------------------------------------------
\* Properties of the pure functions (checked under SpecPure)
\* ------------------------------------------------------------------------
FiveDims == [k \in DimSet |-> SliderMax]

\* C2: for six ratings in 0..5 the computed percentage lies in [0,100]; it
\* is 0 exactly for six zeros and 100 exactly for six fives.
C2_ScoreRange ==
    (p_pc \in {"scored", "built"} /\ p_src = FromSliders) =>
        /\ FLeq(FZero, p_pct)
        /\ FLeq(p_pct, FromInt(100))
        /\ (p_pct = FZero) <=> (p_dims = ZeroDims)
        /\ (p_pct = FromInt(100)) <=> (p_dims = FiveDims)

C2_Witness ==
    p_pc = "scored" /\ p_src = FromSliders /\ p_dims = FiveDims /\ p_pct = FromInt(100)

\* thirty times the exact percentage the call was given
ExactPct30 == IF p_src = FromSliders THEN 100 * score(p_dims) ELSE 3 * p_src

AdviceOf(stage) ==
    IF stage = Early THEN AdviceEarly
    ELSE IF stage = Intermediate THEN AdviceIntermediate
    ELSE AdviceStrong

\* C3: the stage is Early below 50, Intermediate from 50 to below 75 and
\* Strong from 75 on, decided on the unrounded percentage; 50 and 75 fall in
\* the higher bracket, and the recommendation is the one of the stage.
C3_StageBrackets ==
    p_pc = "built" =>
        /\ p_out.stage = (IF ExactPct30 < 50 * 30 THEN Early
                          ELSE IF ExactPct30 < 75 * 30 THEN Intermediate
                          ELSE Strong)
        /\ p_out.advice = AdviceOf(p_out.stage)

C3_Witness ==
    p_pc = "built" /\ p_src = 500 /\ p_out.stage = Intermediate /\ p_out.readiness = 50

NamesOf(parts) == {parts[i][1] : i \in 1..Len(parts)}

\* C4: build_narrative names exactly two weakest and exactly two strongest
\* dimensions, and no dimension is in both, whatever ratings are equal.
C4_TwoWeakTwoStrongDisjoint ==
    p_pc = "built" =>
        /\ Len(p_out.weakest) = 2
        /\ Len(p_out.strongest) = 2
        /\ Cardinality(NamesOf(p_out.weakest)) = 2
        /\ Cardinality(NamesOf(p_out.strongest)) = 2
        /\ NamesOf(p_out.weakest) \cap NamesOf(p_out.strongest) = {}
        /\ NamesOf(p_out.weakest) \cup NamesOf(p_out.strongest)
               \subseteq {Title[k] : k \in DimSet}

C4_Witness ==
    p_pc = "built" /\ p_src = FromSliders /\ p_dims = [k \in DimSet |-> 3]

DeclIndex == [k \in DimSet |-> CHOOSE i \in 1..Len(DimNames) : DimNames[i] = k]

\* the place of dimension k when the six are ordered by rating, equal
\* ratings in declaration order
PlaceOf(d, k) ==
    1 + Cardinality({j \in DimSet :
                        \/ d[j] < d[k]
                        \/ d[j] = d[k] /\ DeclIndex[j] < DeclIndex[k]})

PartAt(d, place) ==
    LET k == CHOOSE j \in DimSet : PlaceOf(d, j) = place
    IN  <<Title[k], d[k]>>

\* C10: the weakest pair is the first two and the strongest pair the last
\* two of the dimensions ordered by rating with ties in declaration order;
\* every weakest rating <= every other rating <= every strongest rating;
\* ratings (3,3,3,2,3,2) give weakest ef_trace and uncertainty, strongest
\* two of the 3-rated dimensions, stage Intermediate.
C10_StableOrder ==
    (p_pc = "built" /\ p_src = FromSliders) =>
        /\ p_out.weakest = <<PartAt(p_dims, 1), PartAt(p_dims, 2)>>
        /\ p_out.strongest = <<PartAt(p_dims, 5), PartAt(p_dims, 6)>>
        /\ \A i \in 1..2, k \in DimSet :
              /\ Title[k] \notin NamesOf(p_out.weakest) => p_out.weakest[i][2] <= p_dims[k]
              /\ Title[k] \notin NamesOf(p_out.strongest) => p_dims[k] <= p_out.strongest[i][2]
        /\ p_dims = DefaultDims =>
              /\ p_out.weakest = <<<<"Ef Trace", 2>>, <<"Uncertainty", 2>>>>
              /\ p_out.strongest = <<<<"Assumptions", 3>>, <<"Data Quality", 3>>>>
              /\ p_out.stage = Intermediate

C10_Witness ==
    /\ p_pc = "built" /\ p_src = FromSliders /\ p_dims = DefaultDims
    /\ p_out.readiness = 53

\* ------------------------------------------------------------------------
\* Properties of the page (checked under Spec)
\* ------------------------------------------------------------------------
RowDims(r) ==
    [boundary |-> r.boundary, baseline |-> r.baseline, assumptions |-> r.assumptions,
     ef_trace |-> r.ef_trace, data_quality |-> r.data_quality,
     uncertainty |-> r.uncertainty]

\* two floats of the same binade that are equal or neighbours
WithinOneUlp(x, y) ==
    \/ x = y
    \/ x.e = y.e /\ (IncBits(x.m).bits = y.m \/ IncBits(y.m).bits = x.m)

\* the double nearest to 100 * sum / 30, for every sum of six ratings
HundredSumOverThirty == [sc \in 0..(6 * SliderMax) |-> FDiv(100 * sc, 30)]

\* C1 as stated: every row of mrv_scores has score_pct == 100 * sum / 30
\* with the six ratings integers in 0..5.
C1_ScoreIsHundredSumOverThirty ==
    \A r \in conn_view :
        /\ \A k \in DimSet : RowDims(r)[k] \in Ratings
        /\ r.score_pct = HundredSumOverThirty[score(RowDims(r))]

\* C1 amended: every row of mrv_scores has six ratings in 0..5 and score_pct
\* equal to the double (sum / 30.0) * 100.0, which is the double 100*sum/30
\* or its neighbour; the display value and the narrative of the row are those
\* of the same ratings.
C1_ScoreIsSumOverThirtyTimesHundred ==
    \A r \in conn_view :
        LET d  == RowDims(r)
            sc == score(d)
        IN  /\ \A k \in DimSet : d[k] \in Ratings
            /\ r.score_pct = PctTable[sc]
            /\ WithinOneUlp(r.score_pct, HundredSumOverThirty[sc])
            /\ r.narrative.readiness = (20 * sc + 3) \div 6
            /\ r.narrative.weakest = <<PartAt(d, 1), PartAt(d, 2)>>

C1_Witness ==
    \E r \in mrv_scores :
        /\ score(RowDims(r)) = 20
        /\ r.score_pct # HundredSumOverThirty[20]
        /\ r.narrative.readiness = 67

\* C5 as stated: when a project is deleted, the mrv_scores rows that referenced
\* it all stay and none of them references it afterwards.
C5_DeleteClearsReference ==
    [][\A p \in ProjectIds(projects) \ ProjectIds(projects') :
          /\ \A r \in mrv_scores : \E q \in mrv_scores' : q.mrv_id = r.mrv_id
          /\ \A q \in mrv_scores' : q.project_id # p]_vars

SameAssessment(r, q) ==
    /\ q.mrv_id = r.mrv_id
    /\ RowDims(q) = RowDims(r)
    /\ q.score_pct = r.score_pct
    /\ q.narrative = r.narrative
    /\ q.created_at = r.created_at

\* C6: no step removes a committed mrv_scores row or changes its ratings,
\* score_pct, narrative or created_at; a step of the page leaves every
\* committed row as it is and does not write table projects; the INSERT of a
\* save adds exactly one row.
C6_AppendOnly ==
    [][/\ \A r \in mrv_scores : \E q \in mrv_scores' : SameAssessment(r, q)
       /\ (\E s \in Sessions : pc'[s] # pc[s]) =>
              /\ mrv_scores \subseteq mrv_scores'
              /\ projects' = projects
       /\ \A s \in Sessions :
              (pc[s] = "save_execute" /\ pc'[s] = "save_commit") =>
                  /\ conn_view \subseteq mrv_scores' \cup tx_rows'
                  /\ Cardinality(mrv_scores' \cup tx_rows') = Cardinality(conn_view) + 1]_vars

C6_Witness ==
    /\ Cardinality(mrv_scores) = 2
    /\ \E s \in Sessions : pc[s] = "page" /\ loc[s].mrv_id = 0

\* C7 as stated: a save_mrv whose write failed returns no mrv_id, shows no
\* success message, and leaves no row of that attempt in mrv_scores, then or
\* later.
C7_FailedSaveLeavesNoRow ==
    /\ \A s \in Sessions : loc[s].error = "save_mrv" => loc[s].message = "exception"
    /\ \A r \in mrv_scores : r.mrv_id \notin failed_ids

\* C8: list_projects never raises; a run in which it returned no rows shows
\* the warning, offers no form and makes no INSERT.
C8_NoProjectsNoForm ==
    \A s \in Sessions :
        /\ loc[s].error # "list_projects"
        /\ loc[s].message = "warning" =>
              /\ pc[s] = "idle"
              /\ ~loc[s].form
              /\ loc[s].mrv_id = 0
        /\ pc[s] \in {"save_execute", "save_commit"} => loc[s].form

C8_Witness ==
    \E s \in Sessions : loc[s].message = "warning" /\ projects # {} /\ faults = 1

\* C9: when both sessions have saved, whatever the order of their execute and
\* commit steps, and no storage failure has occurred, mrv_scores holds one row
\* per session, with distinct mrv_ids, each with the ratings, score and
\* project_id its session passed (the project_id cleared if a deletion of
\* that project has since set it to NULL).
C9_ConcurrentSavesBothStored ==
    (faults = 0 /\ \A s \in Sessions : loc[s].message = "success") =>
        /\ \A s, t \in Sessions : s # t => loc[s].mrv_id # loc[t].mrv_id
        /\ \A s \in Sessions :
              \E r \in mrv_scores :
                  /\ r.mrv_id = loc[s].mrv_id
                  /\ RowDims(r) = loc[s].dims
                  /\ r.score_pct = loc[s].pct
                  /\ \/ r.project_id = loc[s].project_id
                     \/ foreign_keys /\ r.project_id = None
        /\ \A r, q \in mrv_scores : r.mrv_id = q.mrv_id => r = q

C9_Witness ==
    /\ faults = 0
    /\ \A s \in Sessions : loc[s].message = "success" /\ pc[s] = "idle"
    /\ loc["s1"].dims # loc["s2"].dims
    /\ Cardinality(mrv_scores) = 2

====
